---- MODULE Spec2Model ----
(***************************************************************************)
(* Recording / transcription session of open-super-whisper.                *)
(*                                                                         *)
(* MainWindow (src/src/gui/windows/main_window.py) keeps no explicit       *)
(* session state: _toggle_recording_impl looks only at                     *)
(* audio_recorder.is_recording().  Toggles are posted to the GUI thread    *)
(* with QTimer.singleShot(0, ...); each stop with an audio file starts a   *)
(* daemon thread running perform_transcription, which hands its result     *)
(* back through the queued signal transcription_complete.                  *)
(*                                                                         *)
(* One step of the GUI thread is one handler run to its end: a modal       *)
(* message box or dialog is taken as part of the handler that opens it.    *)
(***************************************************************************)
EXTENDS Integers, Sequences, FiniteSets, TLC

\* ---- bounds of the model ------------------------------------------------
MaxToggles == 4         \* toggle triggers fired in one run
MaxClock == 2           \* instants of the wall clock (time.time())
MaxCalls == 2           \* add calls on one store between two clears

\* ---- values ---------------------------------------------------------------
None == "None"                      \* Python None (self.whisper_transcriber)
NoArtifact == <<>>                  \* falsy result of stop_recording()
\* the connection settings saved by the window: none yet, or key and endpoint
Settings ==
    {[api_key |-> "", azure_endpoint |-> ""],
     [api_key |-> "key", azure_endpoint |-> "https://example.openai.azure.com"]}
NoOutcome == [kind |-> "none", text |-> ""]
MaxJobs == MaxToggles \div 2        \* a job needs a start and a stop toggle

VARIABLES
    clock,                \* time.time(), in instants
    whisper_transcriber,  \* MainWindow.whisper_transcriber: None or "service"
    recording,            \* audio_recorder.is_recording()
    audio_file,           \* what the last audio_recorder.stop_recording() returned
    recording_start_time, \* MainWindow.recording_start_time
    recording_timer,      \* recording_timer.isActive()
    triggered,            \* number of toggle_recording calls so far
    pendingToggles,       \* singleShot(0) timers not yet fired, oldest first
    processed,            \* number of _toggle_recording_impl calls so far
    handled,              \* the last two toggles it processed, oldest first
    captures,             \* number of captures the recorder has started
    jobs,                 \* transcription threads, in dispatch order
    completions,          \* queued transcription_complete emissions
    transcription_text,   \* the text widget
    events,               \* what the notification surfaces were told, in order
    transcriber,          \* a WhisperTranscriber object: its self.* fields
    vocab_calls,          \* arguments of add_custom_vocabulary since the last clear
    instr_calls,          \* arguments of add_system_instruction since the last clear
    built,                \* the last _build_prompt(): whether called, the value returned
    call,                 \* the last transcribe(): arguments, request, result
    api_key,              \* MainWindow.api_key
    azure_endpoint,       \* MainWindow.azure_endpoint
    environ,              \* os.environ and the imported openai package
    auto_copy,            \* MainWindow.auto_copy
    clipboard,            \* QApplication.clipboard().text()
    hotkey,               \* MainWindow.hotkey
    listening,            \* the hotkey manager listens for a registered hotkey
    hotkey_setup,         \* the last setup_global_hotkey(): how it ended
    hotkey_dialog,        \* the last show_hotkey_dialog(): how it was closed
    model_combo           \* model_combo.currentData(): the selected model id

\* the window and its session
wvars == <<clock, whisper_transcriber, recording, audio_file,
           recording_start_time, recording_timer, triggered, pendingToggles,
           processed, handled, captures, jobs, completions,
           transcription_text, events, api_key, azure_endpoint, environ,
           auto_copy, clipboard, hotkey, listening, hotkey_setup,
           hotkey_dialog, model_combo>>

\* the WhisperTranscriber object studied by StoreSpec and CallSpec
svars == <<transcriber, vocab_calls, instr_calls, built, call>>

\* the saved connection settings of the window and the process environment
cvars == <<api_key, azure_endpoint, environ>>

\* the clipboard, the auto-copy setting, the global hotkey and the model
\* selector
gvars == <<auto_copy, clipboard, hotkey, listening, hotkey_setup,
           hotkey_dialog, model_combo>>

vars == <<clock, whisper_transcriber, recording, audio_file,
          recording_start_time, recording_timer, triggered, pendingToggles,
          processed, handled, captures, jobs, completions, transcription_text,
          events, transcriber, vocab_calls, instr_calls, built, call,
          api_key, azure_endpoint, environ, auto_copy, clipboard, hotkey,
          listening, hotkey_setup, hotkey_dialog, model_combo>>

\* ==== WhisperTranscriber (src/src/core/whisper_api.py) ======================
\* Python values: a falsy string ("" or None) is "", `a or b` picks the first
\* truthy operand.
Or(a, b) == IF a # "" THEN a ELSE b

StartsWith(str, prefix) ==
    Len(str) >= Len(prefix) /\ SubSeq(str, 1, Len(prefix)) = prefix

DEFAULT_API_VERSION == "2024-02-15-preview"

\* ---- __init__ ---------------------------------------------------------------
\* env: the process environment (os.getenv) and whether the installed openai
\* package has the AzureOpenAI client.
init_fields(key, endpoint, api_version, azure_deployment, env) ==
    [api_key |-> Or(key, Or(env.AZURE_OPENAI_API_KEY, env.OPENAI_API_KEY)),
     azure_endpoint |-> Or(endpoint, env.AZURE_OPENAI_ENDPOINT),
     api_version |-> Or(api_version,
                        Or(env.AZURE_OPENAI_API_VERSION, DEFAULT_API_VERSION)),
     azure_deployment |-> Or(azure_deployment, env.AZURE_OPENAI_DEPLOYMENT),
     model |-> "whisper-1",
     custom_vocabulary |-> <<>>,
     system_instructions |-> <<>>]

init_raises_never(f, env) == FALSE

\* `if not self.api_key or not self.azure_endpoint: raise ValueError`,
\* `if AzureOpenAI is None: raise ValueError`
init_raises(f, env) ==
    \/ f.api_key = "" \/ f.azure_endpoint = ""
    \/ ~env.AzureOpenAI

WhisperTranscriber(key, endpoint, api_version, azure_deployment, env) ==
    LET f == init_fields(key, endpoint, api_version,
                         azure_deployment, env)
    IN  [raised |-> init_raises(f, env), self |-> f]

NoEnviron ==
    [AZURE_OPENAI_API_KEY |-> "", OPENAI_API_KEY |-> "",
     AZURE_OPENAI_ENDPOINT |-> "", AZURE_OPENAI_API_VERSION |-> "",
     AZURE_OPENAI_DEPLOYMENT |-> "", AzureOpenAI |-> TRUE]

\* Environments the application may be started in.
Environs ==
    {NoEnviron,
     [NoEnviron EXCEPT !.AZURE_OPENAI_API_KEY = "env-key"],
     [NoEnviron EXCEPT !.OPENAI_API_KEY = "openai-key",
                       !.AZURE_OPENAI_ENDPOINT = "https://env.openai.azure.com"],
     [NoEnviron EXCEPT !.AZURE_OPENAI_ENDPOINT = "https://env.openai.azure.com"],
     [NoEnviron EXCEPT !.AZURE_OPENAI_API_KEY = "env-key",
                       !.AZURE_OPENAI_ENDPOINT = "https://env.openai.azure.com",
                       !.AzureOpenAI = FALSE]}

\* ---- WhisperTranscriber: models, stores, prompt, transcribe ----------------
AVAILABLE_MODELS == {"whisper-1", "gpt-4o-transcribe", "gpt-4o-mini-transcribe"}

\* ---- the two stores ---------------------------------------------------------
\* An argument of add_custom_vocabulary / add_system_instruction: a str or a
\* list of str.
PyStrArg(x) == [str |-> TRUE, s |-> x, items |-> <<>>]
PyListArg(q) == [str |-> FALSE, s |-> "", items |-> q]

Chars(x) == [i \in 1..Len(x) |-> SubSeq(x, i, i)]

as_list_unwrapped(arg) == IF arg.str THEN Chars(arg.s) ELSE arg.items

\* `if isinstance(terms, str): terms = [terms]`
as_list(arg) == IF arg.str THEN <<arg.s>> ELSE arg.items

\* `self.custom_vocabulary.extend(terms)`, `self.system_instructions.extend(...)`
extend(store, arg) == store \o as_list(arg)

\* ---- _build_prompt ----------------------------------------------------------
NoPrompt == [none |-> TRUE, s |-> ""]        \* Python None
Prompt(x) == [none |-> FALSE, s |-> x]       \* a str

RECURSIVE Join(_, _)
Join(sep, q) ==
    IF q = <<>> THEN ""
    ELSE IF Len(q) = 1 THEN q[1]
    ELSE q[1] \o sep \o Join(sep, Tail(q))

prompt_parts_swapped(vocabulary, instructions) ==
    (IF instructions # <<>>
     THEN <<"Instructions: " \o Join(". ", instructions)>> ELSE <<>>)
    \o (IF vocabulary # <<>>
        THEN <<"Vocabulary: " \o Join(", ", vocabulary)>> ELSE <<>>)

RECURSIVE Distinct(_)
Distinct(q) ==
    IF q = <<>> THEN <<>>
    ELSE LET r == Distinct(SubSeq(q, 1, Len(q) - 1))
         IN  IF \E i \in 1..Len(r) : r[i] = q[Len(q)]
             THEN r ELSE Append(r, q[Len(q)])

\* the prompt of the stores with repeated entries dropped
prompt_parts_distinct(vocabulary, instructions) ==
    (IF vocabulary # <<>>
     THEN <<"Vocabulary: " \o Join(", ", Distinct(vocabulary))>> ELSE <<>>)
    \o (IF instructions # <<>>
        THEN <<"Instructions: " \o Join(". ", Distinct(instructions))>>
        ELSE <<>>)

prompt_parts(vocabulary, instructions) ==
    (IF vocabulary # <<>>
     THEN <<"Vocabulary: " \o Join(", ", vocabulary)>> ELSE <<>>)
    \o (IF instructions # <<>>
        THEN <<"Instructions: " \o Join(". ", instructions)>> ELSE <<>>)

build_prompt_empty_string(vocabulary, instructions) ==
    Prompt(Join(" ", prompt_parts(vocabulary, instructions)))

build_prompt(vocabulary, instructions) ==
    LET parts == prompt_parts(vocabulary, instructions)
    IN  IF parts = <<>> THEN NoPrompt ELSE Prompt(Join(" ", parts))

\* ---- transcribe -------------------------------------------------------------
\* The file system seen by Path.exists() and open(): a path exists or not, and
\* an existing file can be opened or open() raises.
Existing == {"rec.wav", "locked.wav"}
Readable == {"rec.wav"}
Paths == Existing \cup {"missing.wav"}

\* Python values transcribe() can return: a str, a dict (its keys, and the
\* value under "text" when present) or a list.
PyStr(x) == [t |-> "str", keys |-> {}, s |-> x]
PyDict(k, text) == [t |-> "dict", keys |-> k, s |-> text]
PyList == [t |-> "list", keys |-> {}, s |-> "[]"]

\* What client.audio.transcriptions.create can hand back: an SDK model object
\* (has model_dump and a text attribute), a literal dict or list, a str, or
\* some other object with or without a text attribute; and objects that are
\* two of these at once: a dict with a model_dump method ("model_dict", whose
\* own content is {'raw': 1}) and a str with one ("model_str", whose own
\* content is the JSON text [1, 2]). `s` is str(response).
Response(type, has_text, text, str) ==
    [type |-> type, has_text |-> has_text, text |-> text, s |-> str]

Responses ==
    {Response("model", TRUE, "hello", "Transcription(text='hello')"),
     Response("dict", TRUE, "hello", "{'text': 'hello'}"),
     Response("dict", FALSE, "", "{'segments': []}"),
     Response("list", FALSE, "", "[]"),
     Response("str", FALSE, "", "{\"text\": \"hello\"}"),
     Response("str", FALSE, "", "[1, 2]"),
     Response("str", FALSE, "", "hello"),
     Response("str", FALSE, "", "Error: Connection error."),
     Response("obj", TRUE, "hello", "<object>"),
     Response("obj", FALSE, "", "<object>"),
     Response("model_dict", TRUE, "hello", "{'raw': 1}"),
     Response("model_str", TRUE, "hello", "[1, 2]")}

NoResponse == Response("none", FALSE, "", "")

\* The remote call either raises (network, authentication) or returns.
Remotes ==
    {[raises |-> TRUE, msg |-> "Connection error.", response |-> NoResponse]}
    \cup {[raises |-> FALSE, msg |-> "", response |-> r] : r \in Responses}

Languages == {"", "en"}
ResponseFormats == {"text", "json", "verbose_json", "vtt", "srt"}

\* `hasattr(response, "model_dump")`
hasattr_model_dump(response) ==
    response.type \in {"model", "model_dict", "model_str"}
model_dump(response) ==
    PyDict(IF response.has_text THEN {"text"} ELSE {}, response.text)

\* `isinstance(response, (dict, list))`
isinstance_dict_or_list(response) ==
    response.type \in {"dict", "list", "model_dict"}
as_value(response) ==
    IF response.type = "dict"
    THEN PyDict(IF response.has_text THEN {"text"} ELSE {"segments"},
                response.text)
    ELSE IF response.type = "model_dict" THEN PyDict({"raw"}, "")
    ELSE PyList

\* json.loads: [ok, value]; a non-str argument raises TypeError, a str that is
\* not JSON raises JSONDecodeError.
json_loads(response) ==
    IF response.type \notin {"str", "model_str"}
    THEN [ok |-> FALSE, value |-> PyStr("")]
    ELSE IF response.s = "{\"text\": \"hello\"}"
         THEN [ok |-> TRUE, value |-> PyDict({"text"}, "hello")]
    ELSE IF response.s = "[1, 2]" THEN [ok |-> TRUE, value |-> PyList]
    ELSE [ok |-> FALSE, value |-> PyStr("")]

\* str(response), whether or not the response has a text attribute
getattr_text_ignored(response) == response.s

\* getattr(response, "text", str(response))
getattr_text(response) ==
    IF response.type \in {"model", "obj", "model_dict", "model_str"}
       /\ response.has_text
    THEN response.text ELSE response.s

\* the response processing with the literal dict/list test before model_dump
normalize_literal_first(response_format, response) ==
    IF response_format = "json" \/ response_format = "verbose_json"
    THEN IF isinstance_dict_or_list(response) THEN as_value(response)
         ELSE IF json_loads(response).ok THEN json_loads(response).value
         ELSE IF hasattr_model_dump(response) THEN model_dump(response)
         ELSE PyDict({"text"}, getattr_text(response))
    ELSE PyStr(getattr_text(response))

normalize(response_format, response) ==
    IF response_format = "json" \/ response_format = "verbose_json"
    THEN IF hasattr_model_dump(response) THEN model_dump(response)
         ELSE IF isinstance_dict_or_list(response) THEN as_value(response)
         ELSE IF json_loads(response).ok THEN json_loads(response).value
         ELSE PyDict({"text"}, getattr_text(response))
    ELSE PyStr(getattr_text(response))

request_model_selected(azure_deployment, model) == Or(model, azure_deployment)

\* `"model": (self.azure_deployment or self.model)`
request_model(azure_deployment, model) == Or(azure_deployment, model)

NoRequest ==
    [keys |-> {}, model |-> "", response_format |-> "", language |-> "",
     prompt |-> ""]

prompt_given_always(prompt) == TRUE

\* `if prompt:`
prompt_given(prompt) == ~prompt.none /\ prompt.s # ""

params(self, language, response_format) ==
    LET prompt == build_prompt(self.custom_vocabulary, self.system_instructions)
    IN  [keys |-> {"model", "response_format"}
                  \cup (IF language # "" THEN {"language"} ELSE {})
                  \cup (IF prompt_given(prompt) THEN {"prompt"} ELSE {}),
         model |-> request_model(self.azure_deployment, self.model),
         response_format |-> response_format,
         language |-> language,
         prompt |-> prompt.s]

\* the outcome of a body that calls the remote once more when it has failed
Raise_after_retry(msg, request, remote_calls) ==
    [raised |-> TRUE, msg |-> msg, value |-> PyStr(""), request |-> request,
     remote_calls |-> 2 * remote_calls]

\* The outcome of the body of the try block.
Raise(msg, request, remote_calls) ==
    [raised |-> TRUE, msg |-> msg, value |-> PyStr(""), request |-> request,
     remote_calls |-> remote_calls]
Return(value, request) ==
    [raised |-> FALSE, msg |-> "", value |-> value, request |-> request,
     remote_calls |-> 1]

transcribe_body(self, path, language, response_format, remote) ==
    IF path \notin Existing
    THEN Raise("Audio file not found: " \o path, NoRequest, 0)
    ELSE LET request == params(self, language, response_format)
         IN  IF path \notin Readable
             THEN Raise("[Errno 13] Permission denied: " \o path,
                        request, 0)
             ELSE IF remote.raises THEN Raise(remote.msg, request, 1)
             ELSE Return(normalize(response_format, remote.response), request)

error_result_bare(e) == PyStr(e)

\* an error returned as a value of its own kind, not as a str
error_result_tagged(e) == [t |-> "error", keys |-> {}, s |-> "Error: " \o e]

\* `return f"Error: {str(e)}"`
error_result(e) == PyStr("Error: " \o e)

transcribe_uncaught(self, path, language, response_format, remote) ==
    transcribe_body(self, path, language, response_format, remote)

\* `try: ... except Exception as e: return f"Error: {str(e)}"`
transcribe(self, path, language, response_format, remote) ==
    LET body == transcribe_body(self, path, language, response_format,
                                remote)
    IN  IF body.raised
        THEN [body EXCEPT !.raised = FALSE, !.value = error_result(body.msg)]
        ELSE body

\* ---- no _build_prompt() and no transcribe() called yet on an object -----------
NoBuilt == [done |-> FALSE, prompt |-> NoPrompt]

NoCall ==
    [done |-> FALSE, path |-> "", language |-> "", response_format |-> "",
     remote |-> [raises |-> FALSE, msg |-> "", response |-> NoResponse],
     raised |-> FALSE, msg |-> "", value |-> PyStr(""),
     request |-> NoRequest, remote_calls |-> 0]

\* ==== MainWindow (src/src/gui/windows/main_window.py) ========================
\* ---- WhisperTranscriber.__init__ -------------------------------------------
\* The constructor raises ValueError when the key or the endpoint is missing;
\* MainWindow then holds None.
make_transcriber(key, endpoint) ==
    IF WhisperTranscriber(key, endpoint, "", "", environ).raised
    THEN None ELSE "service"

\* ---- AudioRecorder (collaborator) ------------------------------------------
\* start_recording() starts a capture; stop_recording() ends it and returns
\* the path of the file written for that capture, or nothing.
capture_file(n) == <<"rec", n>>

stop_results(n) == {capture_file(n), NoArtifact}

is_recording_after_start == TRUE

is_recording_after_stop == FALSE

\* ---- session state as the notification surfaces can see it -----------------
InFlight == {j \in 1..Len(jobs) : jobs[j].handled = 0}

SessionState ==
    IF recording THEN "Recording"
    ELSE IF InFlight # {} THEN "Transcribing"
    ELSE "Idle"

\* ---- start_recording ------------------------------------------------------
is_configured_always(t) == TRUE

\* `if not self.whisper_transcriber: ... return`
is_configured(t) == t # None

start_time_kept(now, old) == old

\* `self.recording_start_time = time.time()`
start_time(now, old) == now

start_recording ==
    IF ~is_configured(whisper_transcriber)
    THEN /\ events' = Append(events, "ConfigurationRequired")
         /\ UNCHANGED <<recording, captures, recording_start_time,
                        recording_timer>>
    ELSE /\ recording' = is_recording_after_start
         /\ captures' = captures + 1
         /\ recording_start_time' = start_time(clock, recording_start_time)
         /\ recording_timer' = TRUE
         /\ events' = Append(events, "RecordingStarted")

\* ---- stop_recording / start_transcription ----------------------------------
has_file_always(f) == TRUE

\* stop_recording: `if audio_file:`
has_file(f) == f # NoArtifact

dispatch_never(f) == FALSE

\* start_transcription: `if audio_file:` around threading.Thread(...).start()
dispatch_guard(f) == f # NoArtifact

\* A dispatch that calls perform_transcription on the calling thread: the
\* job has already run transcribe() when the handler returns.
new_job_blocking(f) ==
    [audio_file |-> f, pc |-> "returned",
     outcome |-> [kind |-> "returned", text |-> "hello"],
     emitted |-> 0, handled |-> 0, slot_thread |-> "",
     dispatched_with |-> build_prompt(transcriber.custom_vocabulary,
                                      transcriber.system_instructions),
     prompt |-> build_prompt(transcriber.custom_vocabulary,
                             transcriber.system_instructions)]

\* threading.Thread(target=self.perform_transcription, args=(audio_file,
\* selected_language)).start(). `dispatched_with` keeps, for comparison, the
\* prompt of the stores at this moment; `prompt` is what the worker will send.
new_job(f) ==
    [audio_file |-> f, pc |-> "started", outcome |-> NoOutcome,
     emitted |-> 0, handled |-> 0, slot_thread |-> "",
     dispatched_with |-> build_prompt(transcriber.custom_vocabulary,
                                      transcriber.system_instructions),
     prompt |-> NoPrompt]

start_transcription(f) ==
    /\ events' = Append(events, "TranscriptionStarted")
    /\ jobs' = IF dispatch_guard(f) THEN Append(jobs, new_job(f)) ELSE jobs

\* the timer stopped only on the branch that starts a transcription
timer_after_stop_with_file(f) == ~has_file(f)

\* `self.recording_timer.stop()`, before the test of audio_file
timer_after_stop(f) == FALSE

stop_recording ==
    \E f \in stop_results(captures) :
        /\ audio_file' = f
        /\ recording' = is_recording_after_stop
        /\ recording_timer' = timer_after_stop(f)
        /\ IF has_file(f)
           THEN start_transcription(f)
           ELSE /\ events' = Append(events, "RecordingAborted")
                /\ jobs' = jobs
        /\ UNCHANGED <<recording_start_time, captures>>

\* ---- toggle_recording / _toggle_recording_impl -----------------------------
enqueue_coalescing(q, t) ==
    IF \E i \in 1..Len(q) : q[i].at = t.at THEN q ELSE Append(q, t)

\* QTimer.singleShot(0, self._toggle_recording_impl): one timer per call
enqueue(q, t) == Append(q, t)

\* ---- threads -----------------------------------------------------------------
\* toggle_recording is the slot of the record button and of the tray action
\* (GUI thread) and the callback given to the hotkey manager.
Sources == {"hotkey", "button", "tray"}

thread_of(src) == IF src = "hotkey" THEN "listener" ELSE "gui"

direct_call_thread(caller) == caller

\* QTimer.singleShot(0, self._toggle_recording_impl): the bound method of the
\* window is invoked from the event loop of the window's thread
single_shot_thread(caller) == "gui"

slot_thread_direct(emitter) == emitter

\* transcription_complete.connect(self.on_transcription_complete): a signal
\* emitted on another thread than the receiver's is queued to the receiver's
slot_thread(emitter) == IF emitter = "gui" THEN emitter ELSE "gui"

toggle_recording ==
    /\ triggered < MaxToggles
    /\ triggered' = triggered + 1
    /\ \E src \in Sources :
           /\ src = "hotkey" => listening
           /\ pendingToggles' =
                  enqueue(pendingToggles,
                          [at |-> clock,
                           thread |-> single_shot_thread(thread_of(src))])
    /\ UNCHANGED <<clock, whisper_transcriber, recording, audio_file,
                   recording_start_time, recording_timer, processed, handled,
                   captures, jobs, completions, transcription_text, events>>
    /\ UNCHANGED svars
    /\ UNCHANGED cvars
    /\ UNCHANGED gvars

keep_last(q) == IF q = <<>> THEN <<>> ELSE <<q[Len(q)]>>

toggle_recording_impl ==
    /\ pendingToggles # <<>>
    /\ pendingToggles' = Tail(pendingToggles)
    /\ IF recording
       THEN stop_recording
       ELSE /\ start_recording
            /\ UNCHANGED <<audio_file, jobs>>
    /\ processed' = processed + 1
    /\ handled' = keep_last(handled)
                    \o <<[at |-> Head(pendingToggles).at,
                          thread |-> Head(pendingToggles).thread,
                          moved |-> recording' # recording]>>
    /\ UNCHANGED <<clock, whisper_transcriber, triggered, completions,
                   transcription_text>>
    /\ UNCHANGED svars
    /\ UNCHANGED cvars
    /\ UNCHANGED gvars

\* ---- perform_transcription (worker thread) ---------------------------------
\* What self.whisper_transcriber.transcribe(audio_file, language) can do when
\* the worker gets to run: with no transcriber the attribute access raises;
\* transcribe() itself returns a transcript (empty for a silent capture) or an
\* "Error: ..." string.
transcribe_outcomes(t) ==
    IF t = None
    THEN {[kind |-> "raised", text |-> "NoneType has no transcribe"]}
    ELSE {[kind |-> "returned", text |-> "hello"],
          [kind |-> "returned", text |-> ""],
          [kind |-> "returned", text |-> "Error: network"]}

\* AppLabels.ERROR_TRANSCRIPTION.format(str(e)): a fixed prefix before str(e)
ERROR_TRANSCRIPTION(msg) == "TranscriptionError: " \o msg

perform_transcription_no_except(o) ==
    IF o.kind = "returned"
    THEN [emits |-> <<o.text>>, pc |-> "done"]
    ELSE [emits |-> <<>>, pc |-> "unhandled"]

\* try: emit(result)  except Exception as e: emit(ERROR_TRANSCRIPTION(e))
perform_transcription(o) ==
    IF o.kind = "returned"
    THEN [emits |-> <<o.text>>, pc |-> "done"]
    ELSE [emits |-> <<ERROR_TRANSCRIPTION(o.text)>>, pc |-> "done"]

RECURSIVE tag(_, _)
tag(j, texts) ==
    IF texts = <<>> THEN <<>>
    ELSE <<[job |-> j, text |-> Head(texts),
            thread |-> slot_thread("worker")]>> \o tag(j, Tail(texts))

\* transcribe() runs on the worker and calls self._build_prompt(), which reads
\* the transcriber's two lists as they are at that moment
worker_prompt(o) ==
    IF o.kind = "returned"
    THEN build_prompt(transcriber.custom_vocabulary,
                      transcriber.system_instructions)
    ELSE NoPrompt

WorkerTranscribe(j) ==
    /\ j \in 1..Len(jobs)
    /\ jobs[j].pc = "started"
    /\ \E o \in transcribe_outcomes(whisper_transcriber) :
           jobs' = [jobs EXCEPT ![j].pc = "returned", ![j].outcome = o,
                                ![j].prompt = worker_prompt(o)]
    /\ UNCHANGED <<clock, whisper_transcriber, recording, audio_file,
                   recording_start_time, recording_timer, triggered,
                   pendingToggles, processed, handled, captures, completions,
                   transcription_text, events>>
    /\ UNCHANGED svars
    /\ UNCHANGED cvars
    /\ UNCHANGED gvars

WorkerEmit(j) ==
    /\ j \in 1..Len(jobs)
    /\ jobs[j].pc = "returned"
    /\ LET end == perform_transcription(jobs[j].outcome) IN
        /\ jobs' = [jobs EXCEPT ![j].pc = end.pc,
                                ![j].emitted = @ + Len(end.emits)]
        /\ completions' = completions \o tag(j, end.emits)
    /\ UNCHANGED <<clock, whisper_transcriber, recording, audio_file,
                   recording_start_time, recording_timer, triggered,
                   pendingToggles, processed, handled, captures,
                   transcription_text, events>>
    /\ UNCHANGED svars
    /\ UNCHANGED cvars
    /\ UNCHANGED gvars

\* ---- on_transcription_complete (GUI thread, queued signal) -----------------
\* `if self.auto_copy and text:`
copies(flag, text) == flag /\ text # ""

on_transcription_complete ==
    /\ completions # <<>>
    /\ LET c == Head(completions) IN
        /\ transcription_text' = c.text
        /\ clipboard' = IF copies(auto_copy, c.text) THEN c.text ELSE clipboard
        /\ jobs' = [jobs EXCEPT ![c.job].handled = @ + 1,
                                ![c.job].slot_thread = c.thread]
    /\ completions' = Tail(completions)
    /\ events' = Append(events, "TranscriptionFinished")
    /\ UNCHANGED <<clock, whisper_transcriber, recording, audio_file,
                   recording_start_time, recording_timer, triggered,
                   pendingToggles, processed, handled, captures>>
    /\ UNCHANGED svars
    /\ UNCHANGED cvars
    /\ UNCHANGED <<auto_copy, hotkey, listening, hotkey_setup, hotkey_dialog,
                   model_combo>>

\* ---- toggle_auto_copy ----------------------------------------------------------
\* `self.auto_copy = self.auto_copy_action.isChecked()`: the checkable action
\* has just been flipped by the click
toggle_auto_copy ==
    /\ auto_copy' = ~auto_copy
    /\ UNCHANGED <<clock, whisper_transcriber, recording, audio_file,
                   recording_start_time, recording_timer, triggered,
                   pendingToggles, processed, handled, captures, jobs,
                   completions, transcription_text, events>>
    /\ UNCHANGED svars
    /\ UNCHANGED cvars
    /\ UNCHANGED <<clipboard, hotkey, listening, hotkey_setup, hotkey_dialog,
                   model_combo>>

\* ---- setup_global_hotkey / show_hotkey_dialog -----------------------------------
\* AppConfig.DEFAULT_HOTKEY, AppConfig.DEFAULT_MODEL, AppConfig.DEFAULT_AUTO_COPY
DEFAULT_HOTKEY == "ctrl+shift+r"
DEFAULT_MODEL == "gpt-4o-transcribe"
DEFAULT_AUTO_COPY == TRUE

\* hotkey_manager.register_hotkey(self.hotkey, self.toggle_recording) returns
\* True, returns False, or raises.
RegisterResults ==
    {[returned |-> TRUE, raises |-> FALSE, msg |-> ""],
     [returned |-> FALSE, raises |-> FALSE, msg |-> ""],
     [returned |-> FALSE, raises |-> TRUE, msg |-> "hook failed"]}

\* AppLabels.ERROR_HOTKEY.format(str(e)), AppLabels.STATUS_HOTKEY_SET.format(hk):
\* a fixed text around the argument
ERROR_HOTKEY(msg) == "HotkeyError: " \o msg
STATUS_HOTKEY_SET(hk) == "HotkeySet: " \o hk

registration_error(hk, reg) ==
    IF reg.raises THEN reg.msg ELSE "Failed to register hotkey: " \o hk

\* setup_global_hotkey without its except clause
setup_global_hotkey_uncaught(hk, reg) ==
    IF ~reg.raises /\ reg.returned
    THEN [done |-> TRUE, combo |-> hk, registered |-> TRUE, returned |-> TRUE,
          raised |-> FALSE, message |-> ""]
    ELSE [done |-> TRUE, combo |-> hk, registered |-> FALSE,
          returned |-> FALSE, raised |-> TRUE, message |-> ""]

\* try: result = register_hotkey(...); if result: return True
\*      else: raise ValueError(...)
\* except Exception as e: showMessage(ERROR_HOTKEY.format(str(e))); return False
setup_global_hotkey(hk, reg) ==
    IF ~reg.raises /\ reg.returned
    THEN [done |-> TRUE, combo |-> hk, registered |-> TRUE, returned |-> TRUE,
          raised |-> FALSE, message |-> ""]
    ELSE [done |-> TRUE, combo |-> hk, registered |-> FALSE,
          returned |-> FALSE, raised |-> FALSE,
          message |-> ERROR_HOTKEY(registration_error(hk, reg))]

\* dialog.exec() and dialog.get_hotkey(): accepted with a hotkey, accepted with
\* none, cancelled
DialogResults ==
    {[accepted |-> TRUE, hotkey |-> "ctrl+alt+t"],
     [accepted |-> TRUE, hotkey |-> ""],
     [accepted |-> FALSE, hotkey |-> ""]}

NoDialog ==
    [closed |-> FALSE, accepted |-> FALSE, new_hotkey |-> "",
     attempted |-> FALSE, message |-> ""]

\* stop_listener(); then, accepted with a hotkey: store it, setup_global_hotkey,
\* show STATUS_HOTKEY_SET; accepted with none: nothing; cancelled:
\* setup_global_hotkey with the hotkey as it was
show_hotkey_dialog ==
    /\ \E close \in DialogResults, reg \in RegisterResults :
        LET changed == close.accepted /\ close.hotkey # ""
            attempt == changed \/ ~close.accepted
            hk == IF changed THEN close.hotkey ELSE hotkey
            setup == setup_global_hotkey(hk, reg)
        IN  /\ hotkey' = hk
            /\ listening' = (attempt /\ setup.registered)
            /\ hotkey_setup' = IF attempt THEN setup ELSE hotkey_setup
            /\ hotkey_dialog' =
                   [closed |-> TRUE, accepted |-> close.accepted,
                    new_hotkey |-> close.hotkey, attempted |-> attempt,
                    message |-> IF changed THEN STATUS_HOTKEY_SET(hk)
                                ELSE IF attempt THEN setup.message ELSE ""]
    /\ UNCHANGED <<clock, whisper_transcriber, recording, audio_file,
                   recording_start_time, recording_timer, triggered,
                   pendingToggles, processed, handled, captures, jobs,
                   completions, transcription_text, events>>
    /\ UNCHANGED svars
    /\ UNCHANGED cvars
    /\ UNCHANGED <<auto_copy, clipboard, model_combo>>

\* ---- show_api_key_dialog, accepted ------------------------------------------
\* `self.whisper_transcriber = WhisperTranscriber(api_key=..., ...)`: the window
\* gets a newly constructed object (model "whisper-1", both lists empty) in
\* place of the one it had; when the constructor raises it holds None.
show_api_key_dialog ==
    /\ \E c \in Settings :
        LET made == WhisperTranscriber(c.api_key, c.azure_endpoint, "", "",
                                       environ)
        IN  /\ api_key' = c.api_key
            /\ azure_endpoint' = c.azure_endpoint
            /\ whisper_transcriber' =
                   make_transcriber(c.api_key, c.azure_endpoint)
            /\ IF made.raised
               THEN UNCHANGED svars
               ELSE /\ transcriber' = made.self
                    /\ vocab_calls' = <<>>
                    /\ instr_calls' = <<>>
                    /\ built' = NoBuilt
                    /\ call' = NoCall
    /\ UNCHANGED <<clock, recording, audio_file, recording_start_time,
                   recording_timer, triggered, pendingToggles, processed,
                   handled, captures, jobs, completions, transcription_text,
                   events>>
    /\ UNCHANGED environ
    /\ UNCHANGED gvars

\* ---- on_model_changed ---------------------------------------------------------
\* The user picks another entry of the model selector (currentIndexChanged):
\* `if model_id and self.whisper_transcriber: set_model(model_id)`
on_model_changed ==
    /\ \E model \in AVAILABLE_MODELS \ {model_combo} :
        /\ model_combo' = model
        /\ IF whisper_transcriber # None
           THEN /\ transcriber' = [transcriber EXCEPT !.model = model]
                /\ call' = NoCall
           ELSE UNCHANGED <<transcriber, call>>
    /\ UNCHANGED <<vocab_calls, instr_calls, built>>
    /\ UNCHANGED <<clock, whisper_transcriber, recording, audio_file,
                   recording_start_time, recording_timer, triggered,
                   pendingToggles, processed, handled, captures, jobs,
                   completions, transcription_text, events>>
    /\ UNCHANGED cvars
    /\ UNCHANGED <<auto_copy, clipboard, hotkey, listening, hotkey_setup,
                   hotkey_dialog>>

\* ---- the wall clock -------------------------------------------------------------
Tick ==
    /\ clock < MaxClock
    /\ clock' = clock + 1
    /\ UNCHANGED <<whisper_transcriber, recording, audio_file,
                   recording_start_time, recording_timer, triggered,
                   pendingToggles, processed, handled, captures, jobs,
                   completions, transcription_text, events>>
    /\ UNCHANGED svars
    /\ UNCHANGED cvars
    /\ UNCHANGED gvars

\* ---- one WhisperTranscriber object and its callers ---------------------------
Deployments == {"", "my-deployment"}

VocabularyArgs ==
    {PyStrArg("Kubernetes"), PyStrArg("gRPC"),
     PyListArg(<<"Kubernetes", "gRPC">>), PyListArg(<<"gRPC", "gRPC">>),
     PyListArg(<<>>)}

InstructionArgs ==
    {PyStrArg("Remove filler words"),
     PyListArg(<<"Remove filler words", "Add punctuation">>),
     PyListArg(<<>>)}

add_custom_vocabulary(terms) ==
    /\ Len(vocab_calls) < MaxCalls
    /\ transcriber' = [transcriber EXCEPT
                           !.custom_vocabulary = extend(@, terms)]
    /\ vocab_calls' = Append(vocab_calls, terms)
    /\ built' = NoBuilt
    /\ call' = NoCall
    /\ UNCHANGED instr_calls
    /\ UNCHANGED wvars

clear_custom_vocabulary ==
    /\ transcriber' = [transcriber EXCEPT !.custom_vocabulary = <<>>]
    /\ vocab_calls' = <<>>
    /\ built' = NoBuilt
    /\ call' = NoCall
    /\ UNCHANGED instr_calls
    /\ UNCHANGED wvars

get_custom_vocabulary(self) == self.custom_vocabulary

add_system_instruction(instructions) ==
    /\ Len(instr_calls) < MaxCalls
    /\ transcriber' = [transcriber EXCEPT
                           !.system_instructions = extend(@, instructions)]
    /\ instr_calls' = Append(instr_calls, instructions)
    /\ built' = NoBuilt
    /\ call' = NoCall
    /\ UNCHANGED vocab_calls
    /\ UNCHANGED wvars

clear_system_instructions ==
    /\ transcriber' = [transcriber EXCEPT !.system_instructions = <<>>]
    /\ instr_calls' = <<>>
    /\ built' = NoBuilt
    /\ call' = NoCall
    /\ UNCHANGED vocab_calls
    /\ UNCHANGED wvars

get_system_instructions(self) == self.system_instructions

\* a call of _build_prompt(), its return value kept until the stores change
BuildPrompt ==
    /\ built' = [done |-> TRUE,
                 prompt |-> build_prompt(transcriber.custom_vocabulary,
                                         transcriber.system_instructions)]
    /\ UNCHANGED <<transcriber, vocab_calls, instr_calls, call>>
    /\ UNCHANGED wvars

set_model(model) ==
    /\ transcriber' = [transcriber EXCEPT !.model = model]
    /\ call' = NoCall
    /\ UNCHANGED <<vocab_calls, instr_calls, built>>
    /\ UNCHANGED wvars

\* a call of transcribe(), its arguments and outcome kept until the object
\* changes; one call is examined at a time
Transcribe ==
    /\ ~call.done
    /\ \E path \in Paths, language \in Languages,
          response_format \in ResponseFormats, remote \in Remotes :
           LET r == transcribe(transcriber, path, language, response_format,
                               remote)
           IN  /\ call' = [done |-> TRUE, path |-> path, language |-> language,
                           response_format |-> response_format,
                           remote |-> remote, raised |-> r.raised,
                           msg |-> r.msg, value |-> r.value,
                           request |-> r.request,
                           remote_calls |-> r.remote_calls]
               /\ UNCHANGED <<transcriber, vocab_calls, instr_calls, built>>
               /\ UNCHANGED wvars

ServiceInit ==
    /\ transcriber = WhisperTranscriber("key", "https://example.openai.azure.com",
                                        "", "", NoEnviron).self
    /\ vocab_calls = <<>>
    /\ instr_calls = <<>>
    /\ built = NoBuilt
    /\ call = NoCall


\* __init__: the settings' defaults, and setup_global_hotkey() has registered
\* the hotkey
GuiInit ==
    /\ auto_copy = DEFAULT_AUTO_COPY
    /\ clipboard = ""
    /\ hotkey = DEFAULT_HOTKEY
    /\ hotkey_setup =
           setup_global_hotkey(DEFAULT_HOTKEY,
                               [returned |-> TRUE, raises |-> FALSE, msg |-> ""])
    /\ listening = hotkey_setup.registered
    /\ hotkey_dialog = NoDialog
    /\ model_combo = DEFAULT_MODEL

SessionInit ==
    /\ clock = 1
    /\ \E c \in Settings :
           /\ api_key = c.api_key
           /\ azure_endpoint = c.azure_endpoint
           /\ whisper_transcriber = make_transcriber(c.api_key, c.azure_endpoint)
    /\ recording = FALSE
    /\ audio_file = NoArtifact
    /\ recording_start_time = 0
    /\ recording_timer = FALSE
    /\ triggered = 0
    /\ pendingToggles = <<>>
    /\ processed = 0
    /\ handled = <<>>
    /\ captures = 0
    /\ jobs = <<>>
    /\ completions = <<>>
    /\ transcription_text = ""
    /\ events = <<>>

WindowInit == SessionInit /\ GuiInit

Init == environ = NoEnviron /\ WindowInit /\ ServiceInit

Next ==
    \/ toggle_recording
    \/ toggle_recording_impl
    \/ \E j \in 1..MaxJobs : WorkerTranscribe(j)
    \/ \E j \in 1..MaxJobs : WorkerEmit(j)
    \/ on_transcription_complete
    \/ show_api_key_dialog
    \/ Tick

Spec == Init /\ [][Next]_vars

\* The worker threads are scheduled by the OS and the GUI thread runs its event
\* loop: every started thread runs on, every queued event is handled.  Nothing
\* obliges the user to fire a toggle or to open a dialog.
\* ---- the stores of one transcriber ------------------------------------------
StoreInit == Init /\ whisper_transcriber # None

StoreNext ==
    \/ \E terms \in VocabularyArgs : add_custom_vocabulary(terms)
    \/ clear_custom_vocabulary
    \/ \E instructions \in InstructionArgs : add_system_instruction(instructions)
    \/ clear_system_instructions
    \/ BuildPrompt

StoreSpec == StoreInit /\ [][StoreNext]_vars

\* ---- calls of transcribe() on a transcriber whose stores and deployment were
\* ---- set beforehand ----------------------------------------------------------
CallInit ==
    /\ environ = NoEnviron
    /\ WindowInit
    /\ whisper_transcriber # None
    /\ built = NoBuilt
    /\ call = NoCall
    /\ \E v \in {<<>>, <<"Kubernetes">>, <<"Kubernetes", "gRPC">>},
          i \in {<<>>, <<"Remove filler words">>},
          d \in Deployments :
           LET made == WhisperTranscriber("key",
                                          "https://example.openai.azure.com",
                                          "", d, NoEnviron).self
           IN  /\ transcriber = [made EXCEPT !.custom_vocabulary = extend(@, PyListArg(v)),
                                             !.system_instructions = extend(@, PyListArg(i))]
               /\ vocab_calls = IF v = <<>> THEN <<>> ELSE <<PyListArg(v)>>
               /\ instr_calls = IF i = <<>> THEN <<>> ELSE <<PyListArg(i)>>

CallNext ==
    \/ Transcribe
    \/ BuildPrompt
    \/ \E model \in AVAILABLE_MODELS : set_model(model)

CallSpec == CallInit /\ [][CallNext]_vars

\* ---- the auto-copy setting, as saved or switched by the user -------------------
CopyInit ==
    /\ environ = NoEnviron
    /\ SessionInit
    /\ whisper_transcriber # None
    /\ ServiceInit
    /\ auto_copy \in BOOLEAN
    /\ clipboard = ""
    /\ hotkey = DEFAULT_HOTKEY
    /\ hotkey_setup =
           setup_global_hotkey(DEFAULT_HOTKEY,
                               [returned |-> TRUE, raises |-> FALSE, msg |-> ""])
    /\ listening = hotkey_setup.registered
    /\ hotkey_dialog = NoDialog
    /\ model_combo = DEFAULT_MODEL

CopyNext ==
    \/ toggle_recording
    \/ toggle_recording_impl
    \/ \E j \in 1..MaxJobs : WorkerTranscribe(j)
    \/ \E j \in 1..MaxJobs : WorkerEmit(j)
    \/ on_transcription_complete
    \/ toggle_auto_copy

CopySpec == CopyInit /\ [][CopyNext]_vars

\* ---- the global hotkey: registration at start-up and from the hotkey dialog -----
HotkeyInit ==
    /\ environ = NoEnviron
    /\ SessionInit
    /\ whisper_transcriber # None
    /\ ServiceInit
    /\ auto_copy = DEFAULT_AUTO_COPY
    /\ clipboard = ""
    /\ hotkey = DEFAULT_HOTKEY
    /\ \E reg \in RegisterResults :
           hotkey_setup = setup_global_hotkey(DEFAULT_HOTKEY, reg)
    /\ listening = hotkey_setup.registered
    /\ hotkey_dialog = NoDialog
    /\ model_combo = DEFAULT_MODEL

HotkeyNext ==
    \/ toggle_recording
    \/ toggle_recording_impl
    \/ \E j \in 1..MaxJobs : WorkerTranscribe(j)
    \/ \E j \in 1..MaxJobs : WorkerEmit(j)
    \/ on_transcription_complete
    \/ show_hotkey_dialog

HotkeySpec == HotkeyInit /\ [][HotkeyNext]_vars

\* ---- the stores edited while jobs run -----------------------------------------
\* show_vocabulary_dialog, accepted, calls clear_custom_vocabulary() and then
\* add_custom_vocabulary(new_vocabulary) on the GUI thread; a worker thread can
\* run between the two calls and after them.
\* dialog.get_vocabulary(): the list typed into the dialog
DialogVocabularies == {PyListArg(<<"Kubernetes">>)}

EditNext ==
    \/ toggle_recording
    \/ toggle_recording_impl
    \/ \E j \in 1..MaxJobs : WorkerTranscribe(j)
    \/ \E j \in 1..MaxJobs : WorkerEmit(j)
    \/ on_transcription_complete
    \/ clear_custom_vocabulary
    \/ \E terms \in DialogVocabularies : add_custom_vocabulary(terms)

EditSpec == StoreInit /\ [][EditNext]_vars

\* ---- the window's transcriber: start-up with a saved model, model changes,
\* ---- vocabulary edits and new connection settings ---------------------------
\* init_ui selects `self.settings.value("model", DEFAULT_MODEL)` in the
\* selector before currentIndexChanged is connected; the transcriber was
\* constructed before that. Jobs are followed up to the worker's transcribe().
ReconfigInit ==
    /\ environ = NoEnviron
    /\ SessionInit
    /\ ServiceInit
    /\ auto_copy = DEFAULT_AUTO_COPY
    /\ clipboard = ""
    /\ hotkey = DEFAULT_HOTKEY
    /\ hotkey_setup =
           setup_global_hotkey(DEFAULT_HOTKEY,
                               [returned |-> TRUE, raises |-> FALSE, msg |-> ""])
    /\ listening = hotkey_setup.registered
    /\ hotkey_dialog = NoDialog
    /\ model_combo \in AVAILABLE_MODELS

ReconfigNext ==
    \/ toggle_recording
    \/ toggle_recording_impl
    \/ \E j \in 1..MaxJobs : WorkerTranscribe(j)
    \/ on_model_changed
    \/ show_api_key_dialog
    \/ /\ whisper_transcriber # None
       /\ \E terms \in DialogVocabularies : add_custom_vocabulary(terms)

ReconfigSpec == ReconfigInit /\ [][ReconfigNext]_vars

\* ---- the window started in any environment ------------------------------------
ConfigInit == environ \in Environs /\ WindowInit /\ ServiceInit

ConfigSpec == ConfigInit /\ [][Next]_vars

Fairness ==
    /\ \A j \in 1..MaxJobs : WF_vars(WorkerTranscribe(j)) /\ WF_vars(WorkerEmit(j))
    /\ WF_vars(on_transcription_complete)
    /\ WF_vars(toggle_recording_impl)

FairSpec == Spec /\ Fairness

\* ---- properties -------------------------------------------------------------
Last(q) == q[Len(q)]

\* a step in which _toggle_recording_impl handled one toggle
ToggleProcessed == processed' = processed + 1

JobsOf(j) == {i \in 1..Len(completions) : completions[i].job = j}

\* C1: a toggle processed while the session is Transcribing (a job is in
\* flight, nothing is being recorded) changes nothing: capture is not started,
\* no notification is given, no job is dispatched.
C1_ToggleIgnoredWhileTranscribing ==
    [][(ToggleProcessed /\ SessionState = "Transcribing")
        => (recording' = recording /\ recording_timer' = recording_timer
            /\ events' = events /\ jobs' = jobs)]_vars

\* C2: at most one transcription job is in flight, and nothing is being
\* recorded while a job is in flight.
C2_AtMostOneJobInFlight ==
    /\ Cardinality(InFlight) <= 1
    /\ InFlight # {} => ~recording

\* C3: Recording is entered only from Idle, so never twice without a
\* transition into Idle in between.
C3_RecordingOnlyFromIdle ==
    [][(~recording /\ recording') => SessionState = "Idle"]_vars

\* C4 (as claimed): two toggles fired at the same instant make exactly one
\* transition between them.
C4_PairMakesOneTransition ==
    \A i \in 1..(Len(handled) - 1) :
        handled[i].at = handled[i + 1].at
            => (handled[i].moved # handled[i + 1].moved)

\* C4 (amended): every toggle fired is queued and processed by itself, none is
\* dropped or merged with another of the same instant, and a processed toggle
\* makes a transition exactly when capture is running or the service is
\* configured.
C4_EachToggleProcessedByItself ==
    /\ [](triggered = processed + Len(pendingToggles))
    /\ [][ToggleProcessed
           => /\ pendingToggles' = Tail(pendingToggles)
              /\ (recording' # recording)
                   <=> (recording \/ whisper_transcriber # None)]_vars

\* two toggles of one instant, both processed, each with its own transition
C4_Witness ==
    \E i \in 1..(Len(handled) - 1) :
        /\ handled[i].at = handled[i + 1].at
        /\ handled[i].moved /\ handled[i + 1].moved

\* C5: a toggle processed in Idle with a configured service starts capture,
\* records the start time, starts the timer, announces the recording and leaves
\* the session in Recording.
C5_StartFromIdle ==
    [][(ToggleProcessed /\ SessionState = "Idle" /\ whisper_transcriber # None)
        => /\ recording' /\ recording_timer'
           /\ recording_start_time' = clock
           /\ events' = Append(events, "RecordingStarted")
           /\ SessionState' = "Recording"]_vars

C5_Witness ==
    /\ handled # <<>> /\ Last(handled).moved
    /\ recording /\ InFlight = {}
    /\ recording_start_time = 2
    /\ events # <<>> /\ Last(events) = "RecordingStarted"

\* C6: a toggle processed in Idle without a configured service only reports
\* that configuration is required: no capture, no timer, no start time, no
\* job, and the session stays Idle.
C6_UnconfiguredStaysIdle ==
    [][(ToggleProcessed /\ SessionState = "Idle" /\ whisper_transcriber = None)
        => /\ events' = Append(events, "ConfigurationRequired")
           /\ UNCHANGED <<recording, recording_timer, recording_start_time,
                          jobs, audio_file>>
           /\ SessionState' = "Idle"]_vars

C6_Witness ==
    /\ handled # <<>> /\ ~Last(handled).moved
    /\ whisper_transcriber = None
    /\ SessionState = "Idle"
    /\ events # <<>> /\ Last(events) = "ConfigurationRequired"

C8_ArtifactDispatchesOneJob ==
    [][(ToggleProcessed /\ recording /\ audio_file' # NoArtifact)
        => /\ ~recording' /\ ~recording_timer'
           /\ jobs' = Append(jobs, new_job(audio_file'))
           /\ events' = Append(events, "TranscriptionStarted")
           /\ SessionState' = "Transcribing"]_vars

C8_Witness ==
    /\ handled # <<>> /\ Last(handled).moved
    /\ ~recording /\ audio_file = capture_file(2)
    /\ jobs # <<>> /\ Last(jobs).audio_file = audio_file
    /\ Last(jobs).pc = "started"
    /\ SessionState = "Transcribing"
    /\ events # <<>> /\ Last(events) = "TranscriptionStarted"

\* C9: every job delivers exactly one completion once its thread has ended,
\* none before, and its thread never ends on an unhandled exception; each
\* completion delivered is either still queued or has been handled.
C9_ExactlyOneCompletion ==
    \A j \in 1..Len(jobs) :
        /\ jobs[j].pc \in {"started", "returned", "done"}
        /\ jobs[j].emitted = (IF jobs[j].pc = "done" THEN 1 ELSE 0)
        /\ Cardinality(JobsOf(j)) + jobs[j].handled = jobs[j].emitted

\* a job whose transcriber was replaced by None before it ran, and one that
\* came back with an error string, both ended with one completion
C9_Witness ==
    \E j, k \in 1..Len(jobs) :
        /\ jobs[j].pc = "done" /\ jobs[j].outcome.kind = "raised"
        /\ jobs[j].emitted = 1
        /\ jobs[k].pc = "done" /\ jobs[k].outcome.text = "Error: network"
        /\ jobs[k].emitted = 1

C11_NotificationsInSessionOrder ==
    \A i \in 1..(Len(events) - 1) :
        /\ events[i] = "RecordingStarted"
            => events[i + 1] \in {"TranscriptionStarted", "RecordingAborted"}
        /\ events[i] = "TranscriptionStarted"
            => events[i + 1] = "TranscriptionFinished"

\* ---- C12 ----------------------------------------------------------------------
\* C12: transcribe() called with a path at which no file exists does not raise
\* to its caller, makes no remote call, and returns a string that begins with
\* "Error: ".
C12_MissingFileReturnsError ==
    (call.done /\ call.path \notin Existing)
        => /\ ~call.raised
           /\ call.remote_calls = 0
           /\ call.value.t = "str"
           /\ StartsWith(call.value.s, "Error: ")

C12_Witness ==
    /\ call.done
    /\ call.path = "missing.wav"
    /\ call.remote_calls = 0
    /\ call.value = PyStr("Error: Audio file not found: missing.wav")

\* ---- C13 ----------------------------------------------------------------------
\* C13: no call of transcribe() raises to its caller, whatever its inputs; when
\* the file cannot be opened or the remote call fails, the result is a string
\* with the error prefix.
CallFailed == call.path \notin Readable \/ call.remote.raises

C13_FailuresReturnedAsErrorStrings ==
    call.done
        => /\ ~call.raised
           /\ CallFailed => /\ call.value.t = "str"
                            /\ StartsWith(call.value.s, "Error: ")

C13_Witness ==
    /\ call.done
    /\ call.path = "rec.wav"
    /\ call.remote.raises
    /\ call.remote_calls = 1
    /\ ~call.raised
    /\ call.value = PyStr("Error: Connection error.")

\* ---- C14 ----------------------------------------------------------------------
\* C14: the prompt is "Vocabulary: " and the terms joined by ", " when there
\* are terms, "Instructions: " and the items joined by ". " when there are
\* items, and the two segments joined by one space, vocabulary first, when both
\* are present; ["Kubernetes", "gRPC"] with ["Remove filler words"] gives
\* "Vocabulary: Kubernetes, gRPC Instructions: Remove filler words".
RECURSIVE Joined(_, _, _)
Joined(sep, q, n) ==
    IF n = 1 THEN q[1] ELSE Joined(sep, q, n - 1) \o sep \o q[n]

VocabularySegment(V) == "Vocabulary: " \o Joined(", ", V, Len(V))
InstructionsSegment(I) == "Instructions: " \o Joined(". ", I, Len(I))

C14_PromptFormat ==
    built.done =>
        LET V == transcriber.custom_vocabulary
            I == transcriber.system_instructions
        IN  /\ (V # <<>> /\ I = <<>>)
                => built.prompt = Prompt(VocabularySegment(V))
            /\ (V = <<>> /\ I # <<>>)
                => built.prompt = Prompt(InstructionsSegment(I))
            /\ (V # <<>> /\ I # <<>>)
                => built.prompt = Prompt(VocabularySegment(V) \o " "
                                         \o InstructionsSegment(I))
            /\ (V = <<"Kubernetes", "gRPC">> /\ I = <<"Remove filler words">>)
                => built.prompt.s =
                     "Vocabulary: Kubernetes, gRPC Instructions: Remove filler words"

C14_Witness ==
    /\ built.done
    /\ transcriber.custom_vocabulary = <<"Kubernetes", "gRPC">>
    /\ transcriber.system_instructions = <<"Remove filler words">>
    /\ built.prompt =
         Prompt("Vocabulary: Kubernetes, gRPC Instructions: Remove filler words")

\* ---- C15 ----------------------------------------------------------------------
\* C15: _build_prompt() returns None, not "", exactly when both stores are
\* empty, and the request of a transcription has a prompt field exactly when at
\* least one store is not empty.
StoresEmpty ==
    transcriber.custom_vocabulary = <<>> /\ transcriber.system_instructions = <<>>

C15_PromptAbsentIffStoresEmpty ==
    /\ built.done => /\ built.prompt.none <=> StoresEmpty
                     /\ built.prompt # Prompt("")
    /\ (call.done /\ call.path \in Existing)
           => ("prompt" \in call.request.keys <=> ~StoresEmpty)

C15_Witness ==
    /\ StoresEmpty
    /\ built.done
    /\ built.prompt = NoPrompt
    /\ call.done
    /\ call.path = "rec.wav"
    /\ call.request.keys = {"model", "response_format"}

\* ---- C16 ----------------------------------------------------------------------
\* C16: the model field of a request is the deployment name when one is set and
\* the selected model otherwise, so set_model does not change the field while
\* a deployment name is set.
C16_DeploymentTakesPrecedence ==
    (call.done /\ call.path \in Existing)
        => /\ "model" \in call.request.keys
           /\ call.request.model =
                  IF transcriber.azure_deployment # ""
                  THEN transcriber.azure_deployment
                  ELSE transcriber.model

C16_Witness ==
    /\ call.done
    /\ call.path = "rec.wav"
    /\ transcriber.azure_deployment = "my-deployment"
    /\ transcriber.model = "gpt-4o-transcribe"
    /\ call.request.model = "my-deployment"

\* ---- C18 ----------------------------------------------------------------------
\* C18: each store holds exactly the items added since its last clear, in the
\* order they were added and with duplicates kept: a str argument counts as one
\* item, a list argument as its items in order; after a clear the store is empty.
RECURSIVE Added(_)
Added(calls) ==
    IF calls = <<>> THEN <<>>
    ELSE LET last == calls[Len(calls)]
         IN  Added(SubSeq(calls, 1, Len(calls) - 1))
                 \o (IF last.str THEN <<last.s>> ELSE last.items)

C18_StoresHoldWhatWasAdded ==
    /\ get_custom_vocabulary(transcriber) = Added(vocab_calls)
    /\ get_system_instructions(transcriber) = Added(instr_calls)

C18_Witness ==
    /\ vocab_calls = <<PyStrArg("gRPC"), PyListArg(<<"Kubernetes", "gRPC">>)>>
    /\ get_custom_vocabulary(transcriber) = <<"gRPC", "Kubernetes", "gRPC">>
    /\ instr_calls = <<PyStrArg("Remove filler words")>>
    /\ get_system_instructions(transcriber) = <<"Remove filler words">>

\* ---- C19 ----------------------------------------------------------------------
\* C19: a call of transcribe() with response_format json or verbose_json that
\* did not fail returns a dict with a "text" key, whatever the remote call
\* returned.
C19_StructuredResultHasText ==
    (/\ call.done
     /\ call.response_format \in {"json", "verbose_json"}
     /\ ~CallFailed)
        => /\ call.value.t = "dict"
           /\ "text" \in call.value.keys

\* ---- C17 ----------------------------------------------------------------------
\* C17: whenever the API key or the endpoint is absent, in the saved settings
\* and in the environment variables that stand in for them, no transcriber
\* exists (whisper_transcriber is None), and a toggle processed in Idle then
\* starts no recording.
Absent ==
    \/ Or(api_key, Or(environ.AZURE_OPENAI_API_KEY, environ.OPENAI_API_KEY)) = ""
    \/ Or(azure_endpoint, environ.AZURE_OPENAI_ENDPOINT) = ""

C17_AbsentSettingsLeaveUnconfigured ==
    /\ [](Absent => whisper_transcriber = None)
    /\ [][(Absent /\ ToggleProcessed /\ SessionState = "Idle")
              => /\ ~recording'
                 /\ captures' = captures
                 /\ SessionState' = "Idle"]_vars

C17_Witness ==
    /\ api_key = ""
    /\ environ.AZURE_OPENAI_API_KEY = ""
    /\ environ.OPENAI_API_KEY = ""
    /\ Or(azure_endpoint, environ.AZURE_OPENAI_ENDPOINT) # ""
    /\ whisper_transcriber = None
    /\ processed = 1
    /\ ~recording
    /\ events = <<"ConfigurationRequired">>

\* ---- C20 ----------------------------------------------------------------------
\* C20: the session state is read and written on the GUI thread only: every
\* _toggle_recording_impl and every on_transcription_complete runs there; a
\* toggle_recording call, from whatever source, only adds its toggle to the
\* queue; a worker step changes nothing of the window but its own job and the
\* queue of completions, to which it only appends.
ToggleTriggered == triggered' = triggered + 1

WorkerStep ==
    /\ Len(jobs') = Len(jobs)
    /\ \E j \in 1..Len(jobs) : jobs'[j].pc # jobs[j].pc

IsPrefix(q, r) == Len(q) <= Len(r) /\ SubSeq(r, 1, Len(q)) = q

C21_WorkerSeesDispatchTimeStores ==
    \A j \in 1..Len(jobs) :
        (jobs[j].pc # "started" /\ jobs[j].outcome.kind = "returned")
            => jobs[j].prompt = jobs[j].dispatched_with

\* C22: the GUI thread never executes transcribe(): the toggle step that
\* dispatches a job returns with the job merely started (transcribe() not yet
\* run, nothing delivered, older jobs untouched), and the step in which a job's
\* transcribe() runs processes no toggle and changes no session state.
C22_DispatchReturnsAtOnce ==
    /\ [][(ToggleProcessed /\ Len(jobs') = Len(jobs) + 1)
            => /\ Last(jobs').pc = "started"
               /\ Last(jobs').outcome = NoOutcome
               /\ completions' = completions
               /\ \A j \in 1..Len(jobs) : jobs'[j] = jobs[j]]_vars
    /\ [][(\E j \in 1..Len(jobs) :
                jobs[j].pc = "started" /\ jobs'[j].pc # "started")
            => /\ processed' = processed
               /\ pendingToggles' = pendingToggles
               /\ recording' = recording
               /\ events' = events
               /\ transcription_text' = transcription_text]_vars

\* a further toggle has been processed (a new capture runs) while the job
\* dispatched by the stop toggle has not yet called transcribe()
C22_Witness ==
    /\ processed = 3
    /\ recording
    /\ Len(jobs) = 1
    /\ jobs[1].pc = "started"
    /\ jobs[1].outcome = NoOutcome

\* C23: the prompt is a function of the present contents of the two stores
\* only. Whatever calls filled the stores, a built prompt is the prompt of the
\* present contents (nothing kept from an earlier build); entries are joined as
\* stored, repeated ones included, in the case they were given; and building
\* changes neither store, so that building again returns the same prompt.
C23_PromptDependsOnStoresOnly ==
    /\ [](built.done =>
            LET V == get_custom_vocabulary(transcriber)
                I == get_system_instructions(transcriber)
            IN  /\ built.prompt = build_prompt(V, I)
                /\ (V = <<"gRPC", "gRPC">> /\ I = <<>>)
                     => built.prompt = Prompt("Vocabulary: gRPC, gRPC")
                /\ (V = <<"Kubernetes", "gRPC">> /\ I = <<>>)
                     => built.prompt = Prompt("Vocabulary: Kubernetes, gRPC")
                /\ (V = <<>> /\ I = <<"Remove filler words",
                                        "Remove filler words">>)
                     => built.prompt =
                          Prompt("Instructions: Remove filler words. Remove filler words"))
    /\ [][(built'.done /\ built' # built)
            => /\ transcriber' = transcriber
               /\ vocab_calls' = vocab_calls
               /\ instr_calls' = instr_calls]_vars
    /\ [][(built.done /\ built'.done) => built' = built]_vars

\* the vocabulary holds the same term twice, added by two calls, and the
\* prompt built from it names the term twice
C23_Witness ==
    /\ built.done
    /\ vocab_calls = <<PyStrArg("gRPC"), PyStrArg("gRPC")>>
    /\ transcriber.custom_vocabulary = <<"gRPC", "gRPC">>
    /\ transcriber.system_instructions = <<>>
    /\ built.prompt = Prompt("Vocabulary: gRPC, gRPC")

\* C24: one call of transcribe() calls the remote service at most once: not
\* at all when the file is missing or cannot be opened, once when the file is
\* read, and not a second time when that one call has failed. The call leaves
\* the credentials, the deployment, the model and the two stores as they were.
C24_OneRemoteCallAndNoConfigChange ==
    /\ [](call.done =>
            /\ call.remote_calls <= 1
            /\ call.path \notin Existing => call.remote_calls = 0
            /\ call.path \notin Readable => call.remote_calls = 0
            /\ call.path \in Readable => call.remote_calls = 1
            /\ (call.path \in Readable /\ call.remote.raises)
                 => /\ call.remote_calls = 1
                    /\ call.value = error_result(call.remote.msg))
    /\ [][(~call.done /\ call'.done)
            => /\ transcriber' = transcriber
               /\ vocab_calls' = vocab_calls
               /\ instr_calls' = instr_calls
               /\ whisper_transcriber' = whisper_transcriber
               /\ <<api_key, azure_endpoint>>' = <<api_key, azure_endpoint>>]_vars

\* the remote call of a transcription with stores and deployment set has
\* failed: it was made once
C24_Witness ==
    /\ call.done
    /\ call.path \in Readable
    /\ call.remote.raises
    /\ call.remote_calls = 1
    /\ transcriber.custom_vocabulary = <<"Kubernetes", "gRPC">>
    /\ transcriber.azure_deployment = "my-deployment"

\* C25: for the formats json and verbose_json a received response is turned
\* into the result by the first rule that applies, in the order: model_dump()
\* of a response that has it; a dict or list as it is; json.loads of a str;
\* otherwise {"text": text attribute or str(response)}. A response to which
\* two rules apply gets the result of the earlier one.
Structured == {"json", "verbose_json"}

Received ==
    /\ call.done
    /\ call.path \in Readable
    /\ ~call.remote.raises

C25_FirstApplicableRuleWins ==
    (Received /\ call.response_format \in Structured) =>
        LET r == call.remote.response
            dumped == PyDict({"text"}, "hello")
        IN  /\ r.type = "model" => call.value = dumped
            /\ r.type = "model_dict"
                 => call.value = dumped /\ call.value # PyDict({"raw"}, "")
            /\ r.type = "model_str"
                 => call.value = dumped /\ call.value # PyList
            /\ (r.type = "dict" /\ r.has_text)
                 => call.value = PyDict({"text"}, "hello")
            /\ (r.type = "dict" /\ ~r.has_text)
                 => call.value = PyDict({"segments"}, "")
            /\ r.type = "list" => call.value = PyList
            /\ (r.type = "str" /\ r.s = "{\"text\": \"hello\"}")
                 => call.value = PyDict({"text"}, "hello")
            /\ (r.type = "str" /\ r.s = "[1, 2]") => call.value = PyList
            /\ (r.type = "str" /\ r.s = "hello")
                 => call.value = PyDict({"text"}, "hello")
            /\ (r.type = "obj" /\ r.has_text)
                 => call.value = PyDict({"text"}, "hello")
            /\ (r.type = "obj" /\ ~r.has_text)
                 => call.value = PyDict({"text"}, "<object>")

\* a dict that also has model_dump was received for a structured format: the
\* result is what model_dump() returned, not the dict itself
C25_Witness ==
    /\ Received
    /\ call.response_format = "verbose_json"
    /\ call.remote.response.type = "model_dict"
    /\ call.value = PyDict({"text"}, "hello")

\* C26: for the formats text, srt and vtt a received response is returned as
\* a str: its text attribute when it has one, str(response) when it has none
\* (a str is returned as it is; a dict has no text attribute, whatever its
\* keys, and is returned in its string form).
Plain == {"text", "srt", "vtt"}

FailingRemote ==
    [raises |-> TRUE, msg |-> "Connection error.", response |-> NoResponse]

Emitted(value) == perform_transcription([kind |-> "returned", text |-> value.s])

C27_ErrorLikeTranscriptEqualsFailure ==
    (/\ Received
     /\ call.response_format \in Plain
     /\ call.remote.response.type = "str"
     /\ call.remote.response.s = "Error: Connection error.")
        => LET failed == transcribe(transcriber, call.path, call.language,
                                    call.response_format, FailingRemote)
           IN  /\ FailingRemote \in Remotes
               /\ failed.remote_calls = 1
               /\ ~failed.raised /\ ~call.raised
               /\ failed.value = call.value
               /\ Emitted(failed.value) = Emitted(call.value)

\* a successful call has returned the transcript "Error: Connection error."
C27_Witness ==
    /\ Received
    /\ call.response_format = "text"
    /\ call.remote_calls = 1
    /\ call.remote.response.s = "Error: Connection error."
    /\ call.value = PyStr("Error: Connection error.")

\* C28: a completion whose text is an error string is handled as any other:
\* the text is put in the text widget, the finished notification is given, the
\* text is copied to the clipboard exactly when auto-copy is on and the text is
\* not empty, and the session is Idle afterwards.
CompletionHandled == Len(completions') = Len(completions) - 1

HandledAlike ==
    LET text == Head(completions).text
    IN  /\ transcription_text' = text
        /\ events' = Append(events, "TranscriptionFinished")
        /\ clipboard' = IF auto_copy /\ text # "" THEN text ELSE clipboard
        /\ recording' = recording

C28_ErrorCompletionHandledAsSuccess ==
    [][CompletionHandled
        => /\ HandledAlike
           /\ StartsWith(Head(completions).text, "Error: ")
                => SessionState' = "Idle"]_vars

\* C29: when the registration of the global hotkey fails (register_hotkey
\* returns False or raises), setup_global_hotkey does not raise: it shows the
\* hotkey error in the status bar and returns False. The call changes nothing
\* of the session, and toggles can still be triggered (from the record button
\* and the tray menu) and are processed while no hotkey is listened for.
SessionUnchanged ==
    UNCHANGED <<recording, audio_file, recording_start_time, recording_timer,
                triggered, pendingToggles, processed, handled, captures, jobs,
                completions, transcription_text, events, whisper_transcriber>>

C29_FailedRegistrationIsNotFatal ==
    /\ []((hotkey_setup.done /\ ~hotkey_setup.registered)
            => /\ ~hotkey_setup.raised
               /\ hotkey_setup.returned = FALSE
               /\ StartsWith(hotkey_setup.message, ERROR_HOTKEY("")))
    /\ [][(hotkey_setup' # hotkey_setup \/ hotkey_dialog' # hotkey_dialog)
            => SessionUnchanged]_vars
    /\ []((~listening /\ triggered < MaxToggles) => ENABLED toggle_recording)
    /\ [][(~listening /\ ToggleTriggered)
            => pendingToggles' = Append(pendingToggles, Last(pendingToggles'))]_vars
    /\ []((~listening /\ pendingToggles # <<>>)
            => ENABLED toggle_recording_impl)

\* the registration at start-up failed and no hotkey is listened for; a toggle
\* (from the button or the tray) has started a capture all the same
C29_Witness ==
    /\ ~hotkey_dialog.closed
    /\ hotkey_setup.done
    /\ ~hotkey_setup.registered
    /\ hotkey_setup.returned = FALSE
    /\ ~hotkey_setup.raised
    /\ ~listening
    /\ processed = 1
    /\ recording

\* C30: once the hotkey dialog has been closed, however it was closed (accepted
\* with a hotkey, accepted with none, cancelled), the registration of the
\* hotkey the window now holds has been attempted again, so that the listener
\* stays stopped only if that registration failed.
C30_RegistrationAttemptedAfterDialog ==
    hotkey_dialog.closed
        => /\ hotkey_dialog.attempted
           /\ hotkey_setup.combo = hotkey
           /\ listening = hotkey_setup.registered

\* C31: whenever a job is dispatched and the transcriber has no deployment
\* name, the transcriber's model is the model selected in the model selector.
JobDispatched == Len(jobs') = Len(jobs) + 1

C31_DispatchedModelIsSelectedModel ==
    [][(JobDispatched /\ transcriber.azure_deployment = "")
        => transcriber.model = model_combo]_vars

\* C32: accepting the settings dialog with credentials leaves the custom
\* vocabulary and the system instructions of the window's transcriber, and so
\* the prompt of the next transcription, as they were before.
CredentialsSaved ==
    /\ show_api_key_dialog
    /\ whisper_transcriber # None
    /\ whisper_transcriber' # None

C32_ReconfigurationKeepsStores ==
    [][CredentialsSaved
        => /\ transcriber'.custom_vocabulary = transcriber.custom_vocabulary
           /\ transcriber'.system_instructions = transcriber.system_instructions
           /\ build_prompt(transcriber'.custom_vocabulary,
                           transcriber'.system_instructions)
                = build_prompt(transcriber.custom_vocabulary,
                               transcriber.system_instructions)]_vars

\* C33: the recording timer is active exactly while the recorder is
\* recording, in particular after every processed toggle, and every entry into
\* Recording sets recording_start_time to the time of that entry.
C33_TimerRunsWhileRecording ==
    /\ [](recording_timer <=> recording)
    /\ [][ToggleProcessed => (recording_timer' <=> recording')]_vars
    /\ [][(~recording /\ recording')
            => /\ ToggleProcessed
               /\ recording_start_time' = clock]_vars
    /\ [][recording_start_time' # recording_start_time
            => (~recording /\ recording')]_vars

\* a second capture runs, entered at a later instant than the first: the timer
\* is active and the start time is that of the second entry
C33_Witness ==
    /\ processed = 3
    /\ captures = 2
    /\ recording
    /\ recording_timer
    /\ recording_start_time = 2
    /\ clock = 2

============================================================================
